---- MODULE Spec2Model ----
(***************************************************************************)
(* TrainScheduleOptimizer (optimizer.py): the nominal MILP formulation     *)
(* (optimize_schedule), the disruption formulation (handle_disruption)     *)
(* and the rule-based crossing arbitration (optimize_crossing).            *)
(*                                                                         *)
(* The MILP solver is external.  It is modelled by its contract: handed a  *)
(* model (binary and bounded continuous variables, linear constraints, a   *)
(* linear objective to maximise) it answers with a status and, when it has *)
(* one, a value for every variable.  Every answer the contract allows is   *)
(* a possible outcome of a call.                                           *)
(***************************************************************************)
EXTENDS Integers, Sequences, FiniteSets

VARIABLES
    network_state,  \* self.network_state: [timestamp, active_trains, sections]
    time_slots,     \* self.time_slots
    call,           \* the operation invoked on the optimizer, with its argument
    solved,         \* what prob.solve() left behind: status and variable values
    result          \* what the call returned or raised

vars == <<network_state, time_slots, call, solved, result>>

(***************************************************************************)
(* Bounds of the explored inputs.                                          *)
(***************************************************************************)
MaxTrains == 2
MaxSections == 2
MaxSlots == 2
MaxApproaching == 3
MaxLineTrains == 1
MaxLineSections == 3
MaxSwitchSlots == 2

(***************************************************************************)
(* Attributes set by __init__.                                             *)
(***************************************************************************)
time_horizon == 240
slot_duration == 5
DefaultTimeSlots == 48

TrainName(i) == <<"T", i>>

NoCall == [op |-> "none"]
NoSolve == [status |-> "none"]
NoResult == [kind |-> "none"]

Range(s) == {s[i] : i \in 1..Len(s)}

RECURSIVE SumOver(_, _)
SumOver(S, f) ==
    IF S = {} THEN 0
    ELSE LET e == CHOOSE e \in S : TRUE IN f[e] + SumOver(S \ {e}, f)

SetMax(S) == CHOOSE m \in S : \A o \in S : o <= m

(***************************************************************************)
(* optimize_crossing                                                       *)
(***************************************************************************)
StationNames == {"A", "B"}
Stations == [name : StationNames, has_loop_line : BOOLEAN]
\* A train past its last station has no next station.
NoStation == [name |-> "", has_loop_line |-> FALSE]

\* TrainSchedule.get_next_station(): the station the train is heading to.
get_next_station(ts) == ts.next_station

\* for ts in active_trains: if ts.get_next_station() == station: append(ts.train)
RECURSIVE ApproachingFrom(_, _, _)
ApproachingFrom(active, station, i) ==
    IF i > Len(active) THEN <<>>
    ELSE IF get_next_station(active[i]) = station
         THEN <<active[i].train>> \o ApproachingFrom(active, station, i + 1)
         ELSE ApproachingFrom(active, station, i + 1)

\* One insertion step of a stable sort: t goes after every element whose
\* key is not greater than its own.
RECURSIVE InsertByPriority(_, _)
InsertByPriority(sorted, t) ==
    IF sorted = <<>> THEN <<t>>
    ELSE IF Head(sorted).priority <= t.priority
         THEN <<Head(sorted)>> \o InsertByPriority(Tail(sorted), t)
         ELSE <<t>> \o sorted

\* The same step of a sort that is not stable: t goes before its equals.
RECURSIVE InsertBeforeEquals(_, _)
InsertBeforeEquals(sorted, t) ==
    IF sorted = <<>> THEN <<t>>
    ELSE IF Head(sorted).priority < t.priority
         THEN <<Head(sorted)>> \o InsertBeforeEquals(Tail(sorted), t)
         ELSE <<t>> \o sorted

RECURSIVE SortWith(_, _)
SortWith(trains, n) ==
    IF n = 0 THEN <<>>
    ELSE InsertByPriority(SortWith(trains, n - 1), trains[n])

RECURSIVE UnstableSortWith(_, _)
UnstableSortWith(trains, n) ==
    IF n = 0 THEN <<>>
    ELSE InsertBeforeEquals(UnstableSortWith(trains, n - 1), trains[n])

UnstableSortByPriority(trains) == UnstableSortWith(trains, Len(trains))

\* approaching_trains.sort(key=lambda t: t.priority): list.sort is stable.
SortByPriority(trains) == SortWith(trains, Len(trains))

NamesOf(trains) == [i \in 1..Len(trains) |-> trains[i].name]

CrossingDecision(active, station) ==
    LET approaching_trains == ApproachingFrom(active, station, 1)
        ordered == SortByPriority(approaching_trains)
    IN  IF Len(approaching_trains) < 2
        THEN [kind |-> "decision",
              station |-> station.name,
              action |-> "NO_CROSSING_NEEDED",
              reason |-> "Less than 2 trains approaching"]
        ELSE IF station.has_loop_line
        THEN [kind |-> "decision",
              station |-> station.name,
              action |-> "LOOP_LINE_CROSSING",
              through_train |-> ordered[1].name,
              loop_trains |-> NamesOf(Tail(ordered)),
              order |-> NamesOf(ordered)]
        ELSE [kind |-> "decision",
              station |-> station.name,
              action |-> "SEQUENTIAL_PASSAGE",
              order |-> NamesOf(ordered)]

optimize_crossing ==
    /\ call = NoCall
    /\ \E station \in Stations :
        /\ call' = [op |-> "optimize_crossing", station |-> station]
        /\ result' = CrossingDecision(network_state.active_trains, station)
    /\ UNCHANGED <<network_state, time_slots, solved>>


(***************************************************************************)
(* The MILP model handed to the solver.                                    *)
(*                                                                         *)
(* A binary variable is named by its key <<train.id, section.id, t_slot>>, *)
(* a delay variable by its train id.  A constraint                         *)
(*     sum(pos) - sum(neg) <= rhs                                          *)
(* is the record [kind, pos, neg, rhs]; an assignment of the binaries is   *)
(* the set x of the keys whose variable is 1.                              *)
(***************************************************************************)
throughput_weight == 10
delay_weight == 1
disruption_weight == 5
normal_weight == 1
nominal_delay_bound == 60
disruption_delay_bound == 120

Key(train, section, t) == <<train.id, section.id, t>>

\* trains = [ts.train for ts in self.network_state.active_trains]
TrainsOf(ns) == [i \in 1..Len(ns.active_trains) |-> ns.active_trains[i].train]

\* train_section_time: one binary per (train, section, slot)
OccupancyVariables(trains, sections, slots) ==
    {Key(tr, s, t) : tr \in Range(trains), s \in Range(sections), t \in 0..(slots - 1)}

\* sections[-2:]
LastTwo(sections) ==
    IF Len(sections) <= 2 THEN sections
    ELSE SubSeq(sections, Len(sections) - 1, Len(sections))

\* range(max(30, self.time_slots-15), self.time_slots)
CompletionWindow(slots) ==
    (IF slots - 15 > 30 THEN slots - 15 ELSE 30)..(slots - 1)

\* completed_trains: the occupancy variables summed by the throughput term
CompletedTerms(trains, sections, slots) ==
    {Key(tr, s, t) : tr \in Range(trains), s \in Range(LastTwo(sections)),
                     t \in CompletionWindow(slots)}

\* (6 - train.priority) with the sign priority - 6
InvertedPriorityWeight(train) == train.priority - 6

\* (6 - train.priority): the train's weight in weighted_delays
PriorityWeight(train) == 6 - train.priority

\* 1. Each train can only be in one section at a time, with the bound 2
TwoSectionConstraint(train, sections, t) ==
    [kind |-> "one_section",
     pos |-> {Key(train, s, t) : s \in Range(sections)}, neg |-> {}, rhs |-> 2]

\* 1. Each train can only be in one section at a time
OneSectionConstraint(train, sections, t) ==
    [kind |-> "one_section",
     pos |-> {Key(train, s, t) : s \in Range(sections)}, neg |-> {}, rhs |-> 1]

\* 2. Section capacity, with one train more than the capacity let in
OverCapacityConstraint(section, trains, t) ==
    [kind |-> "capacity",
     pos |-> {Key(tr, section, t) : tr \in Range(trains)}, neg |-> {},
     rhs |-> section.capacity + 1]

\* 2. Section capacity constraints
CapacityConstraint(section, trains, t) ==
    [kind |-> "capacity",
     pos |-> {Key(tr, section, t) : tr \in Range(trains)}, neg |-> {},
     rhs |-> section.capacity]

\* 3. with the "+ 1" left out: current_var <= next_var
StrictProgressionConstraint(train, section, next_section, t) ==
    [kind |-> "progression",
     pos |-> {Key(train, section, t)}, neg |-> {Key(train, next_section, t + 1)},
     rhs |-> 0]

\* 3. Train progression: current_var <= next_var + 1
ProgressionConstraint(train, section, next_section, t) ==
    [kind |-> "progression",
     pos |-> {Key(train, section, t)}, neg |-> {Key(train, next_section, t + 1)},
     rhs |-> 1]

\* prob of optimize_schedule, as built before prob.solve(solver)
NominalModel(ns, slots) ==
    LET trains == TrainsOf(ns)
        sections == ns.sections
    IN  [binaries |-> OccupancyVariables(trains, sections, slots),
         delays |-> {tr.id : tr \in Range(trains)},
         upBound |-> nominal_delay_bound,
         obj_x |-> [k \in CompletedTerms(trains, sections, slots) |-> throughput_weight],
         obj_delay |-> [id \in {tr.id : tr \in Range(trains)} |->
                          LET tr == CHOOSE tr \in Range(trains) : tr.id = id
                          IN  0 - delay_weight * PriorityWeight(tr)],
         constraints |->
            {OneSectionConstraint(tr, sections, t) :
                tr \in Range(trains), t \in 0..(slots - 1)}
            \cup
            {CapacityConstraint(s, trains, t) :
                s \in Range(sections), t \in 0..(slots - 1)}
            \cup
            {ProgressionConstraint(tr, sections[i], sections[i + 1], t) :
                tr \in Range(trains), i \in 1..(Len(sections) - 1),
                t \in 0..(slots - 2)}]

\* affected_trains: the trains of the schedules whose route holds the section
RECURSIVE AffectedFrom(_, _, _)
AffectedFrom(active, disrupted_section, i) ==
    IF i > Len(active) THEN <<>>
    ELSE IF disrupted_section.id \in Range(active[i].route)
         THEN <<active[i].train>> \o AffectedFrom(active, disrupted_section, i + 1)
         ELSE AffectedFrom(active, disrupted_section, i + 1)

\* affected_trains, taking every train whose route is not empty
AffectedByAnyRoute(ns, disrupted_section) ==
    SelectSeq(TrainsOf(ns),
              LAMBDA tr : \E i \in 1..Len(ns.active_trains) :
                  /\ ns.active_trains[i].train = tr
                  /\ ns.active_trains[i].route # <<>>)

AffectedTrains(ns, disrupted_section) ==
    AffectedFrom(ns.active_trains, disrupted_section, 1)

\* available_sections = [s for s in sections if not s.is_blocked]
AvailableSections(ns) == SelectSeq(ns.sections, LAMBDA s : ~s.is_blocked)

\* prob of handle_disruption, as built before prob.solve(solver)
DisruptionModel(ns, disrupted_section, slots) ==
    LET trains == TrainsOf(ns)
        available_sections == AvailableSections(ns)
        affected_trains == AffectedTrains(ns, disrupted_section)
    IN  [binaries |-> OccupancyVariables(trains, available_sections, slots),
         delays |-> {tr.id : tr \in Range(trains)},
         upBound |-> disruption_delay_bound,
         obj_x |-> << >>,
         obj_delay |-> [id \in {tr.id : tr \in Range(trains)} |->
                          LET tr == CHOOSE tr \in Range(trains) : tr.id = id
                          IN  0 - (IF tr \in Range(affected_trains)
                                   THEN disruption_weight ELSE normal_weight)],
         constraints |->
            {OneSectionConstraint(tr, available_sections, t) :
                tr \in Range(trains), t \in 0..(slots - 1)}
            \cup
            {CapacityConstraint(s, trains, t) :
                s \in Range(available_sections), t \in 0..(slots - 1)}]

(***************************************************************************)
(* The solver's contract.                                                  *)
(***************************************************************************)
Satisfies(x, c) == Cardinality(c.pos \cap x) - Cardinality(c.neg \cap x) <= c.rhs

IsFeasible(prob, x) == \A c \in prob.constraints : Satisfies(x, c)

ObjectiveX(prob, x) == SumOver(x \cap DOMAIN prob.obj_x, prob.obj_x)

ObjectiveDelay(prob, d) ==
    SumOver(prob.delays, [id \in prob.delays |-> prob.obj_delay[id] * d[id]])

\* A continuous variable in [0, upBound] is sampled at the two ends of its
\* range; the objective is linear, so its extremes lie there.
DelayValues(prob) == {0, prob.upBound}

DelayAssignments(prob) == [prob.delays -> DelayValues(prob)]

BestDelayAssignments(prob) ==
    LET best == SetMax({ObjectiveDelay(prob, d) : d \in DelayAssignments(prob)})
    IN  {d \in DelayAssignments(prob) : ObjectiveDelay(prob, d) = best}

SlotKeys(prob, t) == {k \in prob.binaries : k[3] = t}

\* The constraints that read variables of slot t only.
SlotConstraints(prob, t) ==
    {c \in prob.constraints : \A k \in c.pos \cup c.neg : k[3] = t}

SlotAssignments(prob, t) ==
    LET keys == SlotKeys(prob, t)
        constraints == SlotConstraints(prob, t)
    IN  {a \in SUBSET keys : \A c \in constraints : Satisfies(a, c)}

\* Every assignment of the binaries that satisfies the one-slot constraints
\* of each slot, slot by slot.
RECURSIVE AssignmentsFrom(_, _, _)
AssignmentsFrom(prob, t, slots) ==
    IF t >= slots THEN {{}}
    ELSE LET rest == AssignmentsFrom(prob, t + 1, slots)
         IN  {a \cup r : a \in SlotAssignments(prob, t), r \in rest}

AllAssignments(prob, slots) == AssignmentsFrom(prob, 0, slots)

\* No feasible assignment scores more than the best one-slot assignments
\* added up: leaving out the constraints that span slots only adds
\* assignments.  A feasible assignment that reaches this bound is optimal.
ObjectiveXBound(prob, slots) ==
    SumOver(0..(slots - 1),
            [t \in 0..(slots - 1) |->
                SetMax({ObjectiveX(prob, a) : a \in SlotAssignments(prob, t)})])

\* What prob.solve(solver) may leave behind, the assignments being searched
\* in `candidates`:
\*   Optimal     an optimal solution;
\*   Feasible    the incumbent when the time limit struck: any feasible one;
\*   Not Solved  the time limit struck before any solution was found, which
\*               takes a model that has variables to search;
\*   Infeasible  no assignment satisfies the constraints.
SolverAnswers(prob, slots, candidates) ==
    LET feasible == {x \in candidates : IsFeasible(prob, x)}
        bound == ObjectiveXBound(prob, slots)
        optimal == {x \in feasible : ObjectiveX(prob, x) = bound}
    IN  {[status |-> "Optimal", x |-> x, delay |-> d] :
            x \in optimal, d \in BestDelayAssignments(prob)}
        \cup
        {[status |-> "Feasible", x |-> x, delay |-> d] :
            x \in feasible, d \in DelayAssignments(prob)}
        \cup
        (IF prob.binaries # {} \/ prob.delays # {}
         THEN {[status |-> "Not Solved"]} ELSE {})
        \cup
        (IF feasible = {} THEN {[status |-> "Infeasible"]} ELSE {})


(***************************************************************************)
(* Result synthesis.  A quotient a / b is the pair [num, den]; a division  *)
(* by zero (den = 0) raises ZeroDivisionError.                             *)
(***************************************************************************)
Divide(a, b) == [num |-> a, den |-> b]
Number(a) == [num |-> a, den |-> 1]

\* self.network_state.timestamp + timedelta(minutes = t_slot * self.slot_duration)
SlotTime(timestamp, t_slot) == timestamp + t_slot * slot_duration

\* The (train, section, t_slot) triples in the order of the three nested loops.
LoopOrder(trains, sections, slots) ==
    [n \in 1..(Len(trains) * Len(sections) * slots) |->
        [train |-> trains[((n - 1) \div (Len(sections) * slots)) + 1],
         section |-> sections[(((n - 1) \div slots) % Len(sections)) + 1],
         t_slot |-> (n - 1) % slots]]

\* schedule.append((train, section, time)) for every variable above 0.5,
\* `loops` being the triples the three nested loops run through
ExtractSchedule(ns, loops, x) ==
    LET taken == SelectSeq(loops, LAMBDA e : Key(e.train, e.section, e.t_slot) \in x)
    IN  [i \in 1..Len(taken) |->
            [train |-> taken[i].train,
             section |-> taken[i].section,
             time |-> SlotTime(ns.timestamp, taken[i].t_slot)]]

\* total_delay / len(trains), without the guard
UnguardedAverageDelay(total_delay, trains) == Divide(total_delay, Len(trains))

\* total_delay / len(trains) if trains else 0
AverageDelay(total_delay, trains) ==
    IF Len(trains) # 0 THEN Divide(total_delay, Len(trains)) ELSE Number(0)

TotalDelay(answer) == SumOver(DOMAIN answer.delay, answer.delay)

Max0(n) == IF n > 0 THEN n ELSE 0

\* random.uniform(5, 15), sampled at the ends and the middle of the range
FallbackEstimates == {5, 10, 15}

\* prob.status == LpStatusOptimal or prob.status == LpStatusFeasible
\* optimizer.py binds neither name itself: both come from "from pulp import *"
\* (line 6).  `feasible_bound` tells whether that import binds
\* LpStatusFeasible; when it does not, evaluating the right operand (the left
\* one being false) raises NameError.
StatusTest(status, feasible_bound) ==
    IF status = "Optimal" THEN "extract"
    ELSE IF ~feasible_bound THEN "NameError"
    ELSE IF status = "Feasible" THEN "extract"
    ELSE "fallback"

\* The outcomes of the test over the star imports that fit the solver's
\* answer: a solver that answers Feasible comes with the name bound.
StatusTests(status) ==
    {StatusTest(status, feasible_bound) :
        feasible_bound \in {b \in BOOLEAN : status = "Feasible" => b}}

Raised(error) == [kind |-> "raised", error |-> error]

Returned(schedule, throughput, average_delay, conflicts_resolved, recommendations) ==
    IF average_delay.den = 0 THEN Raised("ZeroDivisionError")
    ELSE [kind |-> "returned",
          schedule |-> schedule,
          throughput |-> throughput,
          average_delay |-> average_delay,
          conflicts_resolved |-> conflicts_resolved,
          recommendations |-> recommendations]

\* optimize_schedule from "Extract results" on: the results the call may
\* end with, one for each estimate the fallback may draw.
NominalResults(ns, loops, answer, test) ==
    LET trains == TrainsOf(ns)
        sections == ns.sections
    IN  IF test = "NameError" THEN {Raised("NameError")}
        ELSE IF test = "extract"
        THEN LET schedule == ExtractSchedule(ns, loops, answer.x)
                 avg_delay == AverageDelay(TotalDelay(answer), trains)
                 conflicts_resolved == Max0(Len(trains) - Len(sections))
             IN  {Returned(schedule,
                           Divide(Len(trains) * time_horizon, 60),
                           avg_delay,
                           conflicts_resolved,
                           <<[text |-> "Optimization completed", n |-> Len(schedule)],
                             [text |-> "Average delay reduced", n |-> avg_delay.num]>>
                           \o (IF conflicts_resolved > 0
                               THEN <<[text |-> "Resolved conflicts",
                                       n |-> conflicts_resolved]>>
                               ELSE <<>>))}
        ELSE {Returned(<<>>,
                       Divide(Len(trains), 4),
                       Number(estimate),
                       0,
                       <<[text |-> "Optimization did not find optimal solution",
                          n |-> 0]>>) : estimate \in FallbackEstimates}

\* handle_disruption from "Generate results" on
DisruptionResult(ns, disrupted_section, loops, answer, test) ==
    LET trains == TrainsOf(ns)
        affected_trains == AffectedTrains(ns, disrupted_section)
        throughput == Divide(Max0(Len(trains) - Len(affected_trains)), 4)
    IN  IF test = "NameError" THEN Raised("NameError")
        ELSE IF test = "extract"
        THEN LET schedule == ExtractSchedule(ns, loops, answer.x)
                 avg_delay == AverageDelay(TotalDelay(answer), trains)
             IN  Returned(schedule,
                          throughput,
                          avg_delay,
                          Len(affected_trains),
                          <<[text |-> "Disruption handled", n |-> Len(affected_trains)],
                            [text |-> "Alternative schedule created avoiding blocked section",
                             n |-> disrupted_section.id],
                            [text |-> "Estimated additional delay", n |-> avg_delay.num]>>
                          \o (IF Len(affected_trains) > 3
                              THEN <<[text |-> "Consider deploying additional rolling stock",
                                      n |-> 0]>>
                              ELSE <<>>)
                          \o <<[text |-> "Monitor section", n |-> disrupted_section.id]>>)
        ELSE Returned(<<>>,
                      throughput,
                      Number(30),
                      Len(affected_trains),
                      <<[text |-> "No feasible rerouting solution found", n |-> 0],
                        [text |-> "Manual coordination required",
                         n |-> Len(affected_trains)],
                        [text |-> "Consider temporary bus services", n |-> 0]>>)

(***************************************************************************)
(* The two MILP operations.  The optimizer keeps nothing between calls;    *)
(* a behaviour is one call on a freshly constructed optimizer.             *)
(***************************************************************************)
OptimizeScheduleOver(prob, candidates) ==
    LET loops == LoopOrder(TrainsOf(network_state), network_state.sections, time_slots)
    IN  \E answer \in SolverAnswers(prob, time_slots, candidates) :
        \E test \in StatusTests(answer.status) :
            /\ call' = [op |-> "optimize_schedule"]
            /\ solved' = answer
            /\ result' \in NominalResults(network_state, loops, answer, test)

optimize_schedule ==
    /\ call = NoCall
    /\ LET prob == NominalModel(network_state, time_slots)
       IN  OptimizeScheduleOver(prob, AllAssignments(prob, time_slots))
    /\ UNCHANGED <<network_state, time_slots>>

handle_disruption ==
    /\ call = NoCall
    /\ \E i \in 1..Len(network_state.sections) :
        LET disrupted_section == network_state.sections[i]
            prob == DisruptionModel(network_state, disrupted_section, time_slots)
            loops == LoopOrder(TrainsOf(network_state),
                               AvailableSections(network_state), time_slots)
        IN  \E answer \in SolverAnswers(prob, time_slots,
                                        AllAssignments(prob, time_slots)) :
            \E test \in StatusTests(answer.status) :
                /\ call' = [op |-> "handle_disruption",
                            disrupted_section |-> disrupted_section]
                /\ solved' = answer
                /\ result' = DisruptionResult(network_state, disrupted_section,
                                              loops, answer, test)
    /\ UNCHANGED <<network_state, time_slots>>

(***************************************************************************)
(* Inputs of the MILP operations: up to MaxSections sections, each with a  *)
(* capacity and a blocked flag; up to MaxTrains live trains, each with a   *)
(* priority and a route; a horizon of up to MaxSlots slots.                *)
(***************************************************************************)
Priorities == {5, 6}
Capacities == {1, 2}
Timestamps == {600}

SectionLists(m) ==
    {[i \in 1..m |-> [id |-> i, capacity |-> c[i], is_blocked |-> b[i]]] :
        c \in [1..m -> Capacities], b \in [1..m -> BOOLEAN]}

\* A route is a run of the global section order from its first section on.
RoutesOver(m) == {[k \in 1..len |-> k] : len \in 0..m}

TrainSchedules(n, m) ==
    {[i \in 1..n |-> [train |-> [id |-> i, name |-> TrainName(i), priority |-> p[i]],
                      route |-> r[i],
                      next_station |-> NoStation]] :
        p \in [1..n -> Priorities], r \in [1..n -> RoutesOver(m)]}

Init ==
    /\ \E n \in 0..MaxTrains, m \in 0..MaxSections, ts \in Timestamps :
         \E active \in TrainSchedules(n, m), sections \in SectionLists(m) :
            network_state = [timestamp |-> ts, active_trains |-> active,
                             sections |-> sections]
    /\ time_slots \in 1..MaxSlots
    /\ call = NoCall
    /\ solved = NoSolve
    /\ result = NoResult

Next == optimize_schedule \/ handle_disruption

Spec == Init /\ [][Next]_vars


(***************************************************************************)
(* Properties of the MILP operations, checked under Spec.                  *)
(***************************************************************************)
IsReturned == result.kind = "returned"
IsMilpCall == call.op \in {"optimize_schedule", "handle_disruption"}
ActiveTrains == network_state.active_trains
Slots == 0..(time_slots - 1)

\* The entries of the returned schedule that put a train into `section`
\* at slot t, i.e. at the time timestamp + 5 t minutes.
EntriesAt(section, t) ==
    {i \in DOMAIN result.schedule :
        /\ result.schedule[i].section = section
        /\ result.schedule[i].time = network_state.timestamp + 5 * t}

EntriesOf(train, t) ==
    {i \in DOMAIN result.schedule :
        /\ result.schedule[i].train = train
        /\ result.schedule[i].time = network_state.timestamp + 5 * t}

\* C1: no entry of the schedule returned by handle_disruption references
\* the disrupted section, whether or not that section is flagged blocked.
C1_DisruptedSectionNeverScheduled ==
    (call.op = "handle_disruption" /\ IsReturned) =>
        \A i \in DOMAIN result.schedule :
            result.schedule[i].section # call.disrupted_section

\* C2: in every returned schedule, for every section and every slot, the
\* entries that put a train into that section at that slot number at most
\* the section's capacity.
C2_CapacityRespected ==
    (IsMilpCall /\ IsReturned) =>
        \A s \in Range(network_state.sections) : \A t \in Slots :
            Cardinality(EntriesAt(s, t)) <= s.capacity

\* C2 witness: handle_disruption returned a schedule that fills a section of
\* capacity 1 at a slot while a second train is scheduled elsewhere at
\* that slot.
C2_Witness ==
    /\ call.op = "handle_disruption"
    /\ IsReturned
    /\ \E s \in Range(network_state.sections) : \E t \in Slots :
        /\ s.capacity = 1
        /\ Cardinality(EntriesAt(s, t)) = 1
        /\ \E o \in Range(network_state.sections) :
            o # s /\ EntriesAt(o, t) # {}

\* C3: in every returned schedule no train has two entries for one slot.
C3_OneSectionPerSlot ==
    (IsMilpCall /\ IsReturned) =>
        \A tr \in Range(TrainsOf(network_state)) : \A t \in Slots :
            Cardinality(EntriesOf(tr, t)) <= 1

\* C3 witness: optimize_schedule returned a schedule in which one train is
\* in one section at slot 0 and in another section at slot 1.
C3_Witness ==
    /\ call.op = "optimize_schedule"
    /\ IsReturned
    /\ \E i, j \in DOMAIN result.schedule :
        /\ result.schedule[i].train = result.schedule[j].train
        /\ result.schedule[i].section # result.schedule[j].section
        /\ result.schedule[i].time = network_state.timestamp
        /\ result.schedule[j].time = network_state.timestamp + 5

InRange(q, lo, hi) == q.den > 0 /\ lo * q.den <= q.num /\ q.num <= hi * q.den

\* C5: whenever the solver status is neither optimal nor feasible, the call
\* returns a result with an empty schedule whose average_delay lies in
\* [5, 15] (optimize_schedule) or is exactly 30 (handle_disruption).
C5_FallbackIsReturned ==
    (IsMilpCall /\ solved.status \notin {"Optimal", "Feasible"}) =>
        /\ IsReturned
        /\ result.schedule = <<>>
        /\ call.op = "optimize_schedule" => InRange(result.average_delay, 5, 15)
        /\ call.op = "handle_disruption" => InRange(result.average_delay, 30, 30)

\* C6: the conflicts_resolved that handle_disruption returns is the number
\* of active trains whose route contains the disrupted section, on the
\* success path and on the fallback path.
C6_ConflictsAreAffectedTrains ==
    (call.op = "handle_disruption" /\ IsReturned) =>
        result.conflicts_resolved =
            Cardinality({i \in DOMAIN ActiveTrains :
                \E k \in DOMAIN ActiveTrains[i].route :
                    ActiveTrains[i].route[k] = call.disrupted_section.id})

\* C6 witness: handle_disruption returned on the fallback path with two
\* active trains of which exactly one is routed over the disrupted section.
C6_Witness ==
    /\ call.op = "handle_disruption"
    /\ IsReturned
    /\ solved.status = "Not Solved"
    /\ Len(ActiveTrains) = 2
    /\ result.conflicts_resolved = 1

\* C8: with no active trains optimize_schedule returns an empty schedule
\* with average_delay zero, and the average is never a division by zero.
C8_NoTrainsNoDelay ==
    (call.op = "optimize_schedule" /\ ActiveTrains = <<>>) =>
        /\ IsReturned
        /\ result.schedule = <<>>
        /\ result.average_delay.den # 0
        /\ result.average_delay.num = 0

\* C8 witness: optimize_schedule returned for a network with sections and
\* no active train.
C8_Witness ==
    /\ call.op = "optimize_schedule"
    /\ ActiveTrains = <<>>
    /\ network_state.sections # <<>>
    /\ IsReturned

\* C10: in every optimal solution of the disruption model, and of the
\* nominal model when every priority is at most 5, every delay variable is
\* 0 and the reported average_delay is 0.
C10_OptimalDelayIsZero ==
    (/\ IsMilpCall
     /\ solved.status = "Optimal"
     /\ \/ call.op = "handle_disruption"
        \/ \A i \in DOMAIN ActiveTrains : ActiveTrains[i].train.priority <= 5) =>
        /\ \A id \in DOMAIN solved.delay : solved.delay[id] = 0
        /\ IsReturned
        /\ result.average_delay.num = 0

\* C10 witness: an optimal solution of the nominal model for two trains of
\* priority 5 that schedules both trains.
C10_Witness ==
    /\ call.op = "optimize_schedule"
    /\ solved.status = "Optimal"
    /\ Len(ActiveTrains) = 2
    /\ \A i \in DOMAIN ActiveTrains : ActiveTrains[i].train.priority = 5
    /\ IsReturned
    /\ Len(result.schedule) >= 2

(***************************************************************************)
(* Inputs of the crossing arbitration: up to MaxApproaching live trains,   *)
(* each with a priority and a next station (or none).                      *)
(***************************************************************************)
CrossingPriorities == {1, 2}

CrossingTrainSchedules(n) ==
    {[i \in 1..n |-> [train |-> [id |-> i, name |-> TrainName(i), priority |-> p[i]],
                      route |-> <<>>,
                      next_station |-> ns[i]]] :
        p \in [1..n -> CrossingPriorities], ns \in [1..n -> Stations \cup {NoStation}]}

InitCrossing ==
    /\ \E n \in 0..MaxApproaching :
         \E active \in CrossingTrainSchedules(n) :
            network_state = [timestamp |-> 0, active_trains |-> active, sections |-> <<>>]
    /\ time_slots = DefaultTimeSlots
    /\ call = NoCall
    /\ solved = NoSolve
    /\ result = NoResult

NextCrossing == optimize_crossing

SpecCrossing == InitCrossing /\ [][NextCrossing]_vars

(***************************************************************************)
(* The progression constraint of optimize_schedule, checked under          *)
(* SpecProgression: lines of up to MaxLineSections sections, long enough   *)
(* for sections that are not neighbours, with up to MaxLineTrains trains.  *)
(***************************************************************************)
InitProgression ==
    /\ \E n \in 0..MaxLineTrains, m \in 0..MaxLineSections, ts \in Timestamps :
         \E active \in TrainSchedules(n, m), sections \in SectionLists(m) :
            network_state = [timestamp |-> ts, active_trains |-> active,
                             sections |-> sections]
    /\ time_slots \in 1..MaxSlots
    /\ call = NoCall
    /\ solved = NoSolve
    /\ result = NoResult

NextProgression == optimize_schedule

SpecProgression == InitProgression /\ [][NextProgression]_vars

WithoutProgression(prob) ==
    [prob EXCEPT !.constraints = {c \in @ : c.kind # "progression"}]

\* C9: the progression constraint is non-binding.  Every 0/1 assignment of
\* the two variables of each progression constraint satisfies it, and an
\* assignment is feasible for the nominal model exactly if it is feasible
\* for the model without the progression constraints.
C9_ProgressionNonBinding ==
    LET prob == NominalModel(network_state, time_slots)
    IN  /\ \A c \in prob.constraints :
            c.kind = "progression" =>
                \A a \in SUBSET (c.pos \cup c.neg) : Satisfies(a, c)
        /\ \A x \in AllAssignments(prob, time_slots) :
            IsFeasible(prob, x) <=> IsFeasible(WithoutProgression(prob), x)

SectionIndexOf(section) ==
    CHOOSE i \in DOMAIN network_state.sections : network_state.sections[i] = section

\* C9 witness: optimize_schedule returned a schedule that has a train in a
\* section at slot 0 and, at slot 1, in a section that is not its neighbour
\* in the section order.
C9_Witness ==
    /\ call.op = "optimize_schedule"
    /\ IsReturned
    /\ \E i, j \in DOMAIN result.schedule :
        /\ result.schedule[i].train = result.schedule[j].train
        /\ result.schedule[i].time = network_state.timestamp
        /\ result.schedule[j].time = network_state.timestamp + 5
        /\ SectionIndexOf(result.schedule[j].section)
             - SectionIndexOf(result.schedule[i].section) \notin {-1, 0, 1}

(***************************************************************************)
(* The scenario of three trains of priorities 1, 3 and 5 on four sections  *)
(* of capacity 1 over the 48 slots set by __init__, under SpecScenario.    *)
(*                                                                         *)
(* The assignments of 576 binaries cannot be listed one by one.  The       *)
(* solver's search is followed over the two-phase assignments: every train *)
(* holds one section up to a slot k and one section from k on, k being one *)
(* of the MaxSwitchSlots slots after the completion window opens.  An      *)
(* answer is still only given as Optimal when it reaches the bound no      *)
(* feasible assignment exceeds, so each answer below is an answer the      *)
(* solver may give; there are others.                                      *)
(***************************************************************************)
ScenarioSections ==
    [i \in 1..4 |-> [id |-> i, capacity |-> 1, is_blocked |-> FALSE]]

ScenarioTrains ==
    [i \in 1..3 |-> [train |-> [id |-> i, name |-> TrainName(i),
                                priority |-> <<1, 3, 5>>[i]],
                     route |-> <<1, 2, 3, 4>>,
                     next_station |-> NoStation]]

At(placement, slots) == {<<k[1], k[2], t>> : k \in placement, t \in slots}

TwoPhaseAssignments(prob, slots) ==
    LET placements == {a \in SlotAssignments(prob, 0) :
                          Cardinality(a) = Cardinality(prob.delays)}
        opens == CHOOSE t \in CompletionWindow(slots) :
                    \A u \in CompletionWindow(slots) : t <= u
        switches == {k \in CompletionWindow(slots) : opens < k /\ k <= opens + MaxSwitchSlots}
    IN  {At(a, 0..(k - 1)) \cup At(b, k..(slots - 1)) :
            a \in placements, b \in placements, k \in switches}

optimize_schedule_scenario ==
    /\ call = NoCall
    /\ LET prob == NominalModel(network_state, time_slots)
       IN  OptimizeScheduleOver(prob, TwoPhaseAssignments(prob, time_slots))
    /\ UNCHANGED <<network_state, time_slots>>

InitScenario ==
    /\ network_state = [timestamp |-> 600, active_trains |-> ScenarioTrains,
                        sections |-> ScenarioSections]
    /\ time_slots = DefaultTimeSlots
    /\ call = NoCall
    /\ solved = NoSolve
    /\ result = NoResult

NextScenario == optimize_schedule_scenario

SpecScenario == InitScenario /\ [][NextScenario]_vars

\* The slots at which the returned schedule has `train` in `section`.
SlotsIn(train, section) ==
    {t \in Slots : \E i \in DOMAIN result.schedule :
        /\ result.schedule[i].train = train
        /\ result.schedule[i].section = section
        /\ result.schedule[i].time = network_state.timestamp + 5 * t}

\* C7: in the schedule extracted from a solution of the scenario's model,
\* for every section that both trains are assigned to, the priority-1 train
\* is in the section no later than the priority-5 train: its first slot
\* there is not after the first slot of the priority-5 train.
C7_HighPriorityNotLater ==
    (call.op = "optimize_schedule" /\ IsReturned /\ solved.status = "Optimal") =>
        \A s \in Range(network_state.sections) :
            \A hi, lo \in Range(TrainsOf(network_state)) :
                (/\ hi.priority = 1
                 /\ lo.priority = 5
                 /\ SlotsIn(hi, s) # {}
                 /\ SlotsIn(lo, s) # {}) =>
                    \A t \in SlotsIn(lo, s) : \E u \in SlotsIn(hi, s) : u <= t

(***************************************************************************)
(* The reference decision of the crossing arbitration, checked under       *)
(* SpecCrossing.                                                           *)
(***************************************************************************)
\* The trains heading to the station, in active_trains order.
ApproachingReference(station) ==
    LET heading == SelectSeq(network_state.active_trains,
                             LAMBDA ts : ts.next_station = station)
    IN  [i \in 1..Len(heading) |-> heading[i].train]

\* The place of A[i] in the order by ascending priority that keeps trains
\* of equal priority in their approach order: one more than the number of
\* trains that go before it.
PlaceInOrder(A, i) ==
    1 + Cardinality({j \in 1..Len(A) :
            \/ A[j].priority < A[i].priority
            \/ (A[j].priority = A[i].priority /\ j < i)})

OrderReference(A) ==
    [k \in 1..Len(A) |-> A[CHOOSE i \in 1..Len(A) : PlaceInOrder(A, i) = k].name]

\* C4: optimize_crossing returns the reference decision: NO_CROSSING_NEEDED
\* without an ordering for fewer than two approaching trains; otherwise the
\* order by ascending priority, ties in approach order, as
\* LOOP_LINE_CROSSING with the first train through and the rest on the loop
\* when the station has a loop line, and as SEQUENTIAL_PASSAGE when not.
C4_CrossingMatchesReference ==
    call.op = "optimize_crossing" =>
        LET A == ApproachingReference(call.station)
            order == OrderReference(A)
        IN  IF Len(A) < 2
            THEN /\ result.action = "NO_CROSSING_NEEDED"
                 /\ DOMAIN result \cap {"order", "through_train", "loop_trains"} = {}
            ELSE IF call.station.has_loop_line
            THEN /\ result.action = "LOOP_LINE_CROSSING"
                 /\ result.order = order
                 /\ result.through_train = order[1]
                 /\ result.loop_trains = Tail(order)
                 /\ <<result.through_train>> \o result.loop_trains = result.order
            ELSE /\ result.action = "SEQUENTIAL_PASSAGE"
                 /\ result.order = order
                 /\ DOMAIN result \cap {"through_train", "loop_trains"} = {}

\* C4 witness: a loop-line crossing of three approaching trains in which
\* the last to approach goes through and the other two, of equal priority,
\* take the loop in their approach order.
C4_Witness ==
    /\ call.op = "optimize_crossing"
    /\ result.action = "LOOP_LINE_CROSSING"
    /\ LET A == ApproachingReference(call.station)
       IN  /\ Len(A) = 3
           /\ A[1].priority = A[2].priority
           /\ A[3].priority < A[1].priority
           /\ result.through_train = A[3].name
           /\ result.loop_trains = <<A[1].name, A[2].name>>

====
